---- MODULE Spec2Model ----
(***************************************************************************)
(* A model of go-axios: the configuration merge (axios/config.go), the     *)
(* interceptor registry and its two folds, and Client.Request              *)
(* (axios/client.go), with the error and response constructors.            *)
(*                                                                         *)
(* Go maps are reference values.  Config.Headers and Config.Params are     *)
(* therefore modelled as references into two heaps (hdrHeap, prmHeap); the *)
(* reference NilRef is Go's nil map.  A Config value is copied by value,   *)
(* its two references are copied with it.                                  *)
(***************************************************************************)
EXTENDS Integers, Sequences, FiniteSets, TLC

\* ---------------------------------------------------------------- bounds

\* Number of goroutines that may be inside Client.Request at the same time.
NumCalls == 2

\* Longest interceptor registry the model builds.
MaxInterceptors == 2

\* ------------------------------------------------------------ references

NilRef == 0
ClientRef == 1
UserRef(p) == 2 * p
FreshRef(p) == 2 * p + 1

Calls == 1 .. NumCalls
Refs == 1 .. (2 * NumCalls + 1)

EmptyMap == << >>

\* ------------------------------------------------------- http.Header ops

\* textproto.CanonicalMIMEHeaderKey on the keys the model uses.
Canon(key) == IF key = "a" THEN "A" ELSE key

\* http.Header.Set: canonical key, value list replaced by the one value.
HeaderSet(h, key, value) ==
    [k \in (DOMAIN h) \cup {Canon(key)} |->
        IF k = Canon(key) THEN <<value>> ELSE h[k]]

\* http.Header.Add: canonical key, value appended to the key's list.
HeaderAdd(h, key, value) ==
    [k \in (DOMAIN h) \cup {Canon(key)} |->
        IF k = Canon(key)
        THEN (IF k \in DOMAIN h THEN Append(h[k], value) ELSE <<value>>)
        ELSE h[k]]

\* A variant of the assignment that keeps the value a key already has.
MapPut_KeepExisting(m, key, value) ==
    [k \in (DOMAIN m) \cup {key} |-> IF k \in DOMAIN m THEN m[k] ELSE value]

\* Go map assignment m[key] = value.
MapPut(m, key, value) ==
    [k \in (DOMAIN m) \cup {key} |-> IF k = key THEN value ELSE m[k]]

\* The orders in which a Go range statement may visit the keys of a map.
RangeOrders(m) ==
    {o \in [1 .. Cardinality(DOMAIN m) -> DOMAIN m] :
        \A i, j \in DOMAIN o : i # j => o[i] # o[j]}

\* ---------------------------------------------------------- mergeConfig

\* The inner loop of mergeHeaders: Set is called once per value.
RECURSIVE SetEach(_, _, _)
SetEach(h, key, values) ==
    IF values = << >> THEN h
    ELSE SetEach(HeaderSet(h, key, Head(values)), key, Tail(values))

\* The outer loop of mergeHeaders over userHeaders, visited in `order`.
RECURSIVE SetAllKeys(_, _, _)
SetAllKeys(h, user, order) ==
    IF order = << >> THEN h
    ELSE SetAllKeys(SetEach(h, Head(order), user[Head(order)]), user, Tail(order))

\* The map a reference denotes; ranging over a nil map visits nothing.
Deref(heap, ref) == IF ref = NilRef THEN EmptyMap ELSE heap[ref]

\* mergeHeaders(defaultHeaders, userHeaders): the map written is the default
\* map itself when it is not nil, a new map (at `fresh`) otherwise.
mergeHeadersTarget(defaultHeaders, fresh) ==
    IF defaultHeaders = NilRef THEN fresh ELSE defaultHeaders

mergeHeaders(heap, fresh, defaultHeaders, userHeaders, order) ==
    LET target == mergeHeadersTarget(defaultHeaders, fresh)
        start == IF defaultHeaders = NilRef THEN EmptyMap ELSE heap[defaultHeaders]
    IN [heap |-> [heap EXCEPT ![target] =
                    SetAllKeys(start, Deref(heap, userHeaders), order)],
        ref |-> target]

\* The loop of mergeParams.
RECURSIVE PutAllKeys(_, _, _)
PutAllKeys(m, user, order) ==
    IF order = << >> THEN m
    ELSE PutAllKeys(MapPut(m, Head(order), user[Head(order)]), user, Tail(order))

mergeParamsTarget(defaultParams, fresh) ==
    IF defaultParams = NilRef THEN fresh ELSE defaultParams

mergeParams(heap, fresh, defaultParams, userParams, order) ==
    LET target == mergeParamsTarget(defaultParams, fresh)
        start == IF defaultParams = NilRef THEN EmptyMap ELSE heap[defaultParams]
    IN [heap |-> [heap EXCEPT ![target] =
                    PutAllKeys(start, Deref(heap, userParams), order)],
        ref |-> target]

\* A []byte: nil (present = FALSE) or a byte sequence, possibly empty.
NilBody == [present |-> FALSE, bytes |-> << >>]
Bytes(b) == [present |-> TRUE, bytes |-> b]

\* A variant of mergeConfig in which the override's Method, URL and Timeout
\* always win.
mergeConfig_OverrideAlways(defaultConfig, userConfig, headersRef, paramsRef) ==
    [Method  |-> userConfig.Method,
     URL     |-> userConfig.URL,
     Headers |-> headersRef,
     Params  |-> paramsRef,
     Body    |-> IF userConfig.Body.present THEN userConfig.Body
                 ELSE defaultConfig.Body,
     Timeout |-> userConfig.Timeout]

\* A variant of mergeConfig that tests the override's Body for length
\* instead of nil.
mergeConfig_BodyByLength(defaultConfig, userConfig, headersRef, paramsRef) ==
    [Method  |-> IF userConfig.Method # "" THEN userConfig.Method
                 ELSE defaultConfig.Method,
     URL     |-> IF userConfig.URL # "" THEN userConfig.URL
                 ELSE defaultConfig.URL,
     Headers |-> headersRef,
     Params  |-> paramsRef,
     Body    |-> IF Len(userConfig.Body.bytes) > 0 THEN userConfig.Body
                 ELSE defaultConfig.Body,
     Timeout |-> IF userConfig.Timeout # 0 THEN userConfig.Timeout
                 ELSE defaultConfig.Timeout]

\* The scalar fields of mergeConfig; Headers and Params are set from the
\* references mergeHeaders and mergeParams returned.
mergeConfig(defaultConfig, userConfig, headersRef, paramsRef) ==
    [Method  |-> IF userConfig.Method # "" THEN userConfig.Method
                 ELSE defaultConfig.Method,
     URL     |-> IF userConfig.URL # "" THEN userConfig.URL
                 ELSE defaultConfig.URL,
     Headers |-> headersRef,
     Params  |-> paramsRef,
     Body    |-> IF userConfig.Body.present THEN userConfig.Body
                 ELSE defaultConfig.Body,
     Timeout |-> IF userConfig.Timeout # 0 THEN userConfig.Timeout
                 ELSE defaultConfig.Timeout]

\* ---------------------------------------------------- requests, replies

\* *http.Request as far as the client touches it.
NoRequest == [Method |-> "", URL |-> "", Header |-> EmptyMap, Body |-> NilBody]

\* http.NewRequestWithContext rejects a method that is not a token.
ValidMethod(m) == m \in {"", "GET", "POST"}

\* http.NewRequestWithContext: an empty method means GET, the header is new.
NewRequestWithContext(method, url, body) ==
    [Method |-> IF method = "" THEN "GET" ELSE method,
     URL    |-> url,
     Header |-> EmptyMap,
     Body   |-> body]

\* prepareRequestBody: nil stays nil, anything else is wrapped in a reader.
prepareRequestBody(config) == config.Body

\* http.StatusText.
StatusText(code) ==
    CASE code = 200 -> "OK"
      [] code = 400 -> "Bad Request"
      [] code = 500 -> "Internal Server Error"
      [] OTHER -> ""

\* The replies the transport may deliver: status line and body on the wire.
Statuses == {200, 399, 400, 500}
ReplyBodies == {<< >>, <<"x">>}
Replies == [StatusCode : Statuses, Body : ReplyBodies]

\* *axios.Response, and the nil *Response.
NoResponse ==
    [isNil |-> TRUE, Status |-> "", StatusCode |-> 0, Body |-> << >>]
Response(status, code, body) ==
    [isNil |-> FALSE, Status |-> status, StatusCode |-> code, Body |-> body]

\* The error values.  A wrapped error (fmt.Errorf with %w) keeps its context
\* strings outermost first, the interceptor index it names (-1: none) and
\* the innermost cause.
NoError ==
    [isNil |-> TRUE, type |-> "", wraps |-> << >>, idx |-> -1, cause |-> "",
     StatusCode |-> 0, Method |-> "", URL |-> "", Message |-> "", Body |-> << >>]
Wrapped(wraps, idx, cause) ==
    [NoError EXCEPT !.isNil = FALSE, !.type = "wrapped", !.wraps = wraps,
                    !.idx = idx, !.cause = cause]
RequestError(code, method, url, message, body) ==
    [NoError EXCEPT !.isNil = FALSE, !.type = "RequestError",
                    !.StatusCode = code, !.Method = method, !.URL = url,
                    !.Message = message, !.Body = body]

\* The outcome of io.ReadAll on a response body.
ReadOk(bytes) == [ok |-> TRUE, bytes |-> bytes, cause |-> ""]
ReadFailed(cause) == [ok |-> FALSE, bytes |-> << >>, cause |-> cause]

\* A variant of HandleResponseError whose own test lets 400 through: for a
\* 400 reply it returns nil.
HandleResponseError_Above400(reply, request, read) ==
    IF reply.StatusCode > 400
    THEN RequestError(reply.StatusCode, request.Method, request.URL,
                      StatusText(reply.StatusCode),
                      IF read.ok /\ Len(read.bytes) > 0 THEN read.bytes ELSE << >>)
    ELSE NoError

\* HandleResponseError: the body is read best-effort, a read error is dropped.
HandleResponseError(reply, request, read) ==
    IF reply.StatusCode >= 400
    THEN RequestError(reply.StatusCode, request.Method, request.URL,
                      StatusText(reply.StatusCode),
                      IF read.ok /\ Len(read.bytes) > 0 THEN read.bytes ELSE << >>)
    ELSE NoError

\* The wire status line of a reply, as http.Response.Status holds it.
StatusLine(code) ==
    CASE code = 200 -> "200 OK"
      [] code = 399 -> "399"
      [] code = 400 -> "400 Bad Request"
      [] OTHER -> "500 Internal Server Error"

\* ParseResponse: (response, error); the deferred Close runs on both paths.
ParseResponse(reply, read) ==
    IF ~read.ok
    THEN [resp |-> NoResponse,
          err |-> Wrapped(<<"reading response body">>, -1, read.cause)]
    ELSE [resp |-> Response(StatusLine(reply.StatusCode), reply.StatusCode, read.bytes),
          err |-> NoError]

\* ---------------------------------------------------------- interceptors

\* An interceptor function is modelled by what it does: nothing is there
\* (a nil func), append a value to a header / to the body, or fail.
NoFn == [op |-> "nil", k |-> "", v |-> ""]
AddFn(k, v) == [op |-> "add", k |-> k, v |-> v]
FailFn(v) == [op |-> "fail", k |-> "", v |-> v]

T1 == [Request |-> AddFn("A", "t1"), Response |-> AddFn("", "r1")]
T2 == [Request |-> AddFn("a", "t2"), Response |-> NoFn]
T3 == [Request |-> NoFn, Response |-> AddFn("", "r3")]
T4 == [Request |-> FailFn("boom"), Response |-> FailFn("boom")]
Interceptors == {T1, T2, T3, T4}

\* What a request transform returns on success.
CallRequestFn(f, r) == [r EXCEPT !.Header = HeaderAdd(@, f.k, f.v)]

\* What a response transform returns on success.
CallResponseFn(f, r) == [r EXCEPT !.Body = Append(@, f.v)]

\* The loop of ApplyRequestInterceptors from position i (1-based here, the
\* index the error names is zero-based).  Calling a nil func panics.
RECURSIVE RequestLoop(_, _, _, _)
RequestLoop(registry, i, r, log) ==
    IF i > Len(registry)
    THEN [kind |-> "ok", req |-> r, idx |-> -1, cause |-> "", log |-> log]
    ELSE LET f == registry[i].Request IN
         IF f.op = "nil"
         THEN [kind |-> "panic", req |-> NoRequest, idx |-> i - 1,
               cause |-> "nil func", log |-> log]
         ELSE IF f.op = "fail"
         THEN [kind |-> "error", req |-> NoRequest, idx |-> i - 1,
               cause |-> f.v, log |-> Append(log, i - 1)]
         ELSE RequestLoop(registry, i + 1, CallRequestFn(f, r), Append(log, i - 1))

\* Variants of ApplyRequestInterceptors with a slip in the loop: one visits
\* the registry last to first, the other goes on after a failure and reports
\* the first failure at the end.
Reverse(seq) == [i \in 1 .. Len(seq) |-> seq[Len(seq) + 1 - i]]
ApplyRequestInterceptors_Reversed(registry, r) ==
    RequestLoop(Reverse(registry), 1, r, << >>)

RECURSIVE RequestLoopNoStop(_, _, _, _, _)
RequestLoopNoStop(registry, i, r, log, failed) ==
    IF i > Len(registry)
    THEN (IF failed.kind = "error" THEN [failed EXCEPT !.log = log]
          ELSE [kind |-> "ok", req |-> r, idx |-> -1, cause |-> "", log |-> log])
    ELSE LET f == registry[i].Request IN
         IF f.op = "nil"
         THEN [kind |-> "panic", req |-> NoRequest, idx |-> i - 1,
               cause |-> "nil func", log |-> log]
         ELSE IF f.op = "fail"
         THEN RequestLoopNoStop(registry, i + 1, r, Append(log, i - 1),
                                IF failed.kind = "error" THEN failed
                                ELSE [kind |-> "error", req |-> NoRequest,
                                      idx |-> i - 1, cause |-> f.v, log |-> << >>])
         ELSE RequestLoopNoStop(registry, i + 1, CallRequestFn(f, r),
                                Append(log, i - 1), failed)
ApplyRequestInterceptors_NoShortCircuit(registry, r) ==
    RequestLoopNoStop(registry, 1, r, << >>,
                      [kind |-> "ok", req |-> NoRequest, idx |-> -1,
                       cause |-> "", log |-> << >>])

ApplyRequestInterceptors(registry, r) == RequestLoop(registry, 1, r, << >>)

\* The error ApplyRequestInterceptors returns for a failure at index idx.
RequestInterceptorError(idx, cause) ==
    Wrapped(<<"request interceptor failed">>, idx, cause)

\* The loop of ApplyResponseInterceptors.
RECURSIVE ResponseLoop(_, _, _, _)
ResponseLoop(registry, i, r, log) ==
    IF i > Len(registry)
    THEN [kind |-> "ok", resp |-> r, idx |-> -1, cause |-> "", log |-> log]
    ELSE LET f == registry[i].Response IN
         IF f.op = "nil"
         THEN [kind |-> "panic", resp |-> NoResponse, idx |-> i - 1,
               cause |-> "nil func", log |-> log]
         ELSE IF f.op = "fail"
         THEN [kind |-> "error", resp |-> NoResponse, idx |-> i - 1,
               cause |-> f.v, log |-> Append(log, i - 1)]
         ELSE ResponseLoop(registry, i + 1, CallResponseFn(f, r), Append(log, i - 1))

\* A variant of ApplyResponseInterceptors that visits the registry last to
\* first.
ApplyResponseInterceptors_Reversed(registry, r) ==
    ResponseLoop(Reverse(registry), 1, r, << >>)

ApplyResponseInterceptors(registry, r) == ResponseLoop(registry, 1, r, << >>)

\* ------------------------------------------------------------ the state

VARIABLES
    newClientArg,   \* the literal Config NewClient was given (history)
    client,         \* Client.config and Client.httpClient.Timeout
    interceptors,   \* Client.interceptorManager.interceptors
    im,             \* the registry of a manager the caller made itself
    hdrHeap,        \* the http.Header maps, by reference
    prmHeap,        \* the map[string]string maps, by reference
    crashed,        \* the Go runtime ended the process (fatal error)
    pc,             \* per call: where the goroutine is inside Request
    ctx,            \* per call: "live", or the context's error
    cancelPhase,    \* per call: had the reply arrived when ctx ended (history)
    userCfg,        \* per call: the config argument
    finalCfg,       \* per call: the local finalConfig
    req,            \* per call: the local req
    reqLog,         \* per call: indices of the request transforms invoked
    respLog,        \* per call: indices of the response transforms invoked
    copied,         \* per call: the header map as the copy loop read it (history)
    sent,           \* per call: the request handed to httpClient.Do (history)
    attempts,       \* per call: how often httpClient.Do was called (history)
    doTimeout,      \* per call: the timeout httpClient.Do ran under (history)
    reply,          \* per call: the transport's reply
    stream,         \* per call: resp.Body: "none", "open" or "closed"
    bodyRead,       \* per call: how io.ReadAll on resp.Body ended (history)
    result,         \* per call: what Request returned
    stage,          \* the caller's own call of one of the two folds
    mrg             \* a direct call of mergeConfig and what the caller did next

callVars == <<pc, ctx, cancelPhase, userCfg, finalCfg, req, reqLog, respLog,
              copied, sent, attempts, doTimeout, reply, stream, bodyRead,
              result>>
clientVars == <<newClientArg, client, interceptors, im, hdrHeap, prmHeap,
                crashed, stage>>
vars == <<clientVars, callVars, mrg>>

\* A Config whose maps are references.
Config(method, url, headers, params, body, timeout) ==
    [Method |-> method, URL |-> url, Headers |-> headers, Params |-> params,
     Body |-> body, Timeout |-> timeout]

\* A Config as a caller writes it: each map nil or a literal.
NilMap == [isNil |-> TRUE, m |-> EmptyMap]
Map(m) == [isNil |-> FALSE, m |-> m]
RefOf(lit, ref) == IF lit.isNil THEN NilRef ELSE ref

\* The configs given to NewClient.
ClientConfigs ==
    {Config("", "", NilMap, NilMap, NilBody, 10),
     Config("GET", "http://h", Map("A" :> <<"d">>), Map("q" :> "0"), NilBody, 10),
     Config("GET", "http://h", Map("a" :> <<"e">>), NilMap, NilBody, 10)}

\* The configs given to Request.
UserConfigs ==
    {Config("GET", "http://h/x", NilMap, NilMap, NilBody, 0),
     Config("", "http://h/y", Map("A" :> <<"u">>), Map("q" :> "1"), Bytes(<<"b">>), 5),
     Config("B D", "http://h/x", NilMap, NilMap, NilBody, 0),
     Config("GET", "http://h/x", NilMap, Map("r" :> "2"), NilBody, 5)}

NoConfig == Config("", "", NilRef, NilRef, NilBody, 0)
NoReply == [StatusCode |-> 0, Body |-> << >>]
NoResult == [returned |-> FALSE, resp |-> NoResponse, err |-> NoError]
Returned(resp, err) == [returned |-> TRUE, resp |-> resp, err |-> err]
NoStage == [op |-> "none", kind |-> "", req |-> NoRequest, resp |-> NoResponse,
            in |-> NoResponse, err |-> NoError, log |-> << >>]
NoMerge == [pc |-> "none"]

\* NewClient: the Config is stored by value, so the client shares the maps of
\* the caller's literal; the http.Client timeout is taken from it once.
NewClient(config) ==
    [config |-> Config(config.Method, config.URL,
                       RefOf(config.Headers, ClientRef),
                       RefOf(config.Params, ClientRef),
                       config.Body, config.Timeout),
     timeout |-> config.Timeout]

\* NewInterceptorManager: the registry starts out nil.
NewInterceptorManager == << >>

InitCalls ==
    /\ pc = [p \in Calls |-> "idle"]
    /\ ctx = [p \in Calls |-> "live"]
    /\ cancelPhase = [p \in Calls |-> "none"]
    /\ userCfg = [p \in Calls |-> NoConfig]
    /\ finalCfg = [p \in Calls |-> NoConfig]
    /\ req = [p \in Calls |-> NoRequest]
    /\ reqLog = [p \in Calls |-> << >>]
    /\ respLog = [p \in Calls |-> << >>]
    /\ copied = [p \in Calls |-> EmptyMap]
    /\ sent = [p \in Calls |-> NoRequest]
    /\ attempts = [p \in Calls |-> 0]
    /\ doTimeout = [p \in Calls |-> 0]
    /\ reply = [p \in Calls |-> NoReply]
    /\ stream = [p \in Calls |-> "none"]
    /\ bodyRead = [p \in Calls |-> "none"]
    /\ result = [p \in Calls |-> NoResult]

InitClient(config) ==
    /\ newClientArg = config
    /\ client = NewClient(config)
    /\ interceptors = NewInterceptorManager
    /\ im = NewInterceptorManager
    /\ hdrHeap = [r \in Refs |-> IF r = ClientRef THEN config.Headers.m ELSE EmptyMap]
    /\ prmHeap = [r \in Refs |-> IF r = ClientRef THEN config.Params.m ELSE EmptyMap]
    /\ crashed = FALSE
    /\ stage = NoStage

Init ==
    /\ \E config \in ClientConfigs : InitClient(config)
    /\ InitCalls
    /\ mrg = NoMerge

\* ------------------------------------------------------- Client.Request

InFlight(p) == pc[p] \notin {"idle", "done", "panicked"}

\* The accesses to shared maps a goroutine is about to make.  mergeHeaders
\* writes its target once per user value, mergeParams once per user key, the
\* copy loop of Request reads the merged header map.
Writes(p) ==
    (IF pc[p] = "mergeHeaders"
        /\ \E k \in DOMAIN Deref(hdrHeap, userCfg[p].Headers) :
              Deref(hdrHeap, userCfg[p].Headers)[k] # << >>
     THEN {<<"hdr", mergeHeadersTarget(client.config.Headers, FreshRef(p))>>}
     ELSE {})
    \cup
    (IF pc[p] = "mergeParams" /\ DOMAIN Deref(prmHeap, userCfg[p].Params) # {}
     THEN {<<"prm", mergeParamsTarget(client.config.Params, FreshRef(p))>>}
     ELSE {})

Reads(p) ==
    IF pc[p] = "copyHeaders" THEN {<<"hdr", finalCfg[p].Headers>>} ELSE {}

\* Two goroutines, unordered by any synchronisation, are about to access the
\* same map and one of them writes.
Race ==
    \E p, q \in Calls :
        p # q /\ Writes(p) \cap (Writes(q) \cup Reads(q)) # {}

\* The caller enters Request with a config of its own and a live context.
RequestStart(p, config) ==
    /\ ~crashed /\ pc[p] = "idle" /\ stage.op = "none"
    /\ hdrHeap' = [hdrHeap EXCEPT ![UserRef(p)] = config.Headers.m,
                                  ![FreshRef(p)] = EmptyMap]
    /\ prmHeap' = [prmHeap EXCEPT ![UserRef(p)] = config.Params.m,
                                  ![FreshRef(p)] = EmptyMap]
    /\ userCfg' = [userCfg EXCEPT ![p] =
                     Config(config.Method, config.URL,
                            RefOf(config.Headers, UserRef(p)),
                            RefOf(config.Params, UserRef(p)),
                            config.Body, config.Timeout)]
    /\ pc' = [pc EXCEPT ![p] = "mergeHeaders"]
    /\ UNCHANGED <<newClientArg, client, interceptors, im, crashed, stage, ctx,
                   cancelPhase, finalCfg, req, reqLog, respLog, copied, sent, attempts, doTimeout,
                   reply, stream, bodyRead, result, mrg>>

\* mergeConfig up to and including mergeHeaders: finalConfig is a copy of
\* the client's config (Params still the client's own reference).
RequestMergeHeaders(p) ==
    /\ ~crashed /\ pc[p] = "mergeHeaders"
    /\ \E order \in RangeOrders(Deref(hdrHeap, userCfg[p].Headers)) :
        LET m == mergeHeaders(hdrHeap, FreshRef(p), client.config.Headers,
                              userCfg[p].Headers, order)
        IN /\ hdrHeap' = m.heap
           /\ finalCfg' = [finalCfg EXCEPT ![p] =
                             mergeConfig(client.config, userCfg[p], m.ref,
                                         client.config.Params)]
    /\ pc' = [pc EXCEPT ![p] = "mergeParams"]
    /\ UNCHANGED <<newClientArg, client, interceptors, im, prmHeap, crashed, stage,
                   ctx, cancelPhase, userCfg, req, reqLog, respLog, copied,
                   sent, attempts, doTimeout, reply, stream, bodyRead, result, mrg>>

\* The rest of mergeConfig: mergeParams, body and timeout.
RequestMergeParams(p) ==
    /\ ~crashed /\ pc[p] = "mergeParams"
    /\ \E order \in RangeOrders(Deref(prmHeap, userCfg[p].Params)) :
        LET m == mergeParams(prmHeap, FreshRef(p), client.config.Params,
                             userCfg[p].Params, order)
        IN /\ prmHeap' = m.heap
           /\ finalCfg' = [finalCfg EXCEPT ![p] =
                             mergeConfig(client.config, userCfg[p],
                                         finalCfg[p].Headers, m.ref)]
    /\ pc' = [pc EXCEPT ![p] = "prepare"]
    /\ UNCHANGED <<newClientArg, client, interceptors, im, hdrHeap, crashed, stage,
                   ctx, cancelPhase, userCfg, req, reqLog, respLog, copied,
                   sent, attempts, doTimeout, reply, stream, bodyRead, result, mrg>>

\* fmt.Errorf("<context>: %w", err).
WrapError(context, err) == [err EXCEPT !.wraps = <<context>> \o @]

\* Request's answer to a failed request interceptor stage.
InterceptorStageError(idx, cause) ==
    WrapError("applying request interceptors", RequestInterceptorError(idx, cause))

\* prepareRequestBody, http.NewRequestWithContext and the request
\* interceptor stage: all local to the call.
RequestPrepare(p) ==
    /\ ~crashed /\ pc[p] = "prepare"
    /\ IF ~ValidMethod(finalCfg[p].Method)
       THEN /\ result' = [result EXCEPT ![p] =
                            Returned(NoResponse,
                                     Wrapped(<<"creating request">>, -1,
                                             "invalid method"))]
            /\ pc' = [pc EXCEPT ![p] = "done"]
            /\ UNCHANGED <<req, reqLog>>
       ELSE LET a == ApplyRequestInterceptors(
                        interceptors,
                        NewRequestWithContext(finalCfg[p].Method, finalCfg[p].URL,
                                              prepareRequestBody(finalCfg[p])))
            IN /\ reqLog' = [reqLog EXCEPT ![p] = a.log]
               /\ req' = [req EXCEPT ![p] = a.req]
               /\ pc' = [pc EXCEPT ![p] =
                           CASE a.kind = "ok" -> "copyHeaders"
                             [] a.kind = "error" -> "done"
                             [] OTHER -> "panicked"]
               /\ result' = [result EXCEPT ![p] =
                               IF a.kind = "error"
                               THEN Returned(NoResponse,
                                             InterceptorStageError(a.idx, a.cause))
                               ELSE @]
    /\ UNCHANGED <<newClientArg, client, interceptors, im, hdrHeap, prmHeap, crashed,
                   stage, ctx, cancelPhase, userCfg, finalCfg, respLog, copied,
                   sent, attempts, doTimeout, reply, stream, bodyRead, mrg>>

\* A variant of the copy loop that calls Set where the code calls Add.
AddEach_Set(h, key, values) == SetEach(h, key, values)

\* The inner loop of the header copy: Add is called once per value.
RECURSIVE AddEach(_, _, _)
AddEach(h, key, values) ==
    IF values = << >> THEN h
    ELSE AddEach(HeaderAdd(h, key, Head(values)), key, Tail(values))

\* The header copy of Request over the merged map, visited in `order`.
RECURSIVE CopyHeaders(_, _, _)
CopyHeaders(h, merged, order) ==
    IF order = << >> THEN h
    ELSE CopyHeaders(AddEach(h, Head(order), merged[Head(order)]), merged, Tail(order))

RequestCopyHeaders(p) ==
    /\ ~crashed /\ pc[p] = "copyHeaders"
    /\ \E order \in RangeOrders(hdrHeap[finalCfg[p].Headers]) :
        req' = [req EXCEPT ![p].Header =
                  CopyHeaders(@, hdrHeap[finalCfg[p].Headers], order)]
    /\ copied' = [copied EXCEPT ![p] = hdrHeap[finalCfg[p].Headers]]
    /\ pc' = [pc EXCEPT ![p] = "do"]
    /\ UNCHANGED <<newClientArg, client, interceptors, im, hdrHeap, prmHeap, crashed,
                   stage, ctx, cancelPhase, userCfg, finalCfg, reqLog, respLog,
                   sent, attempts, doTimeout, reply, stream, bodyRead, result, mrg>>

\* A variant in which the merged config's Timeout governs the call.
TransportTimeout_FromConfig(c, config) == config.Timeout

\* The timeout httpClient.Do runs under is the http.Client's own, set by
\* NewClient; the call's merged config plays no part.
TransportTimeout(c, config) == c.timeout

\* httpClient.Do is called: the request is in the transport's hands.
RequestDo(p) ==
    /\ ~crashed /\ pc[p] = "do"
    /\ sent' = [sent EXCEPT ![p] = req[p]]
    /\ attempts' = [attempts EXCEPT ![p] = @ + 1]
    /\ doTimeout' = [doTimeout EXCEPT ![p] = TransportTimeout(client, finalCfg[p])]
    /\ pc' = [pc EXCEPT ![p] = "inflight"]
    /\ UNCHANGED <<newClientArg, client, interceptors, im, hdrHeap, prmHeap, crashed,
                   stage, ctx, cancelPhase, userCfg, finalCfg, req, reqLog,
                   respLog, copied, reply, stream, bodyRead, result, mrg>>

\* Request's answer to an error of httpClient.Do.
ExecError(cause) == Wrapped(<<"executing request">>, -1, cause)

\* What httpClient.Do may return: the context's error once the context has
\* ended, else a network error or a reply whose status line has arrived.
DoError(cause) == [kind |-> "error", cause |-> cause, reply |-> NoReply]
DoReply(rp) == [kind |-> "reply", cause |-> "", reply |-> rp]

\* A variant of the transport call for a request built without its context:
\* the context's end goes unnoticed.
DoOutcomes_WithoutContext(c) ==
    {DoError("connection refused")} \cup {DoReply(rp) : rp \in Replies}

DoOutcomes(c) ==
    IF c # "live" THEN {DoError(c)}
    ELSE {DoError("connection refused")} \cup {DoReply(rp) : rp \in Replies}

\* A variant of the error branch that calls Do again.
AfterDoError_Retry == "do"

\* Where Request goes when Do returned an error: it returns.
AfterDoError == "done"

\* httpClient.Do returns `out`.
RequestDoReturn(p, out) ==
    /\ ~crashed /\ pc[p] = "inflight"
    /\ IF out.kind = "error"
       THEN /\ result' = [result EXCEPT ![p] =
                            Returned(NoResponse, ExecError(out.cause))]
            /\ pc' = [pc EXCEPT ![p] = AfterDoError]
            /\ UNCHANGED <<reply, stream>>
       ELSE /\ reply' = [reply EXCEPT ![p] = out.reply]
            /\ stream' = [stream EXCEPT ![p] = "open"]
            /\ pc' = [pc EXCEPT ![p] = "reply"]
            /\ UNCHANGED result
    /\ UNCHANGED <<newClientArg, client, interceptors, im, hdrHeap, prmHeap, crashed,
                   stage, ctx, cancelPhase, userCfg, finalCfg, req, reqLog,
                   respLog, copied, sent, attempts, doTimeout, bodyRead, mrg>>

\* What io.ReadAll may yield for a body: after the context ended the read
\* fails, except that an empty body (http.NoBody) still reads as empty.
ReadOutcomes(c, body) ==
    IF c = "live"
    THEN {ReadOk(body), ReadFailed("unexpected EOF")}
    ELSE {ReadFailed(c)} \cup (IF body = << >> THEN {ReadOk(body)} ELSE {})

\* A variant of the status check that lets 400 itself through.
IsErrorStatus_Above400(code) == code > 400

\* The status check of Request.
IsErrorStatus(code) == code >= 400

\* A variant of the last statement of Request that runs the response stage
\* on the parsed response.
RequestParse_WithResponseStage(registry, rp, read) ==
    LET r == ParseResponse(rp, read)
        a == ApplyResponseInterceptors(registry, r.resp)
    IN IF ~r.err.isNil THEN [resp |-> r.resp, err |-> r.err, log |-> << >>]
       ELSE [resp |-> a.resp,
             err |-> IF a.kind = "ok" THEN NoError
                     ELSE Wrapped(<<"response interceptor failed">>, a.idx, a.cause),
             log |-> a.log]

\* The last statement of Request: it returns what ParseResponse returns and
\* calls no response transform.
RequestParse(registry, rp, read) ==
    LET r == ParseResponse(rp, read)
    IN [resp |-> r.resp, err |-> r.err, log |-> << >>]

\* The status check and what follows it, io.ReadAll yielding `read`.
\* HandleResponseError reads the body and leaves it open; ParseResponse reads
\* it and closes it.
RequestFinish(p, read) ==
    /\ ~crashed /\ pc[p] = "reply"
    /\ IF IsErrorStatus(reply[p].StatusCode)
        THEN /\ result' = [result EXCEPT ![p] =
                             Returned(NoResponse,
                                      HandleResponseError(reply[p], sent[p], read))]
             /\ UNCHANGED <<stream, respLog>>
        ELSE LET r == RequestParse(interceptors, reply[p], read)
             IN /\ result' = [result EXCEPT ![p] = Returned(r.resp, r.err)]
                /\ respLog' = [respLog EXCEPT ![p] = r.log]
                /\ stream' = [stream EXCEPT ![p] = "closed"]
    /\ bodyRead' = [bodyRead EXCEPT ![p] = IF read.ok THEN "ok" ELSE "failed"]
    /\ pc' = [pc EXCEPT ![p] = "done"]
    /\ UNCHANGED <<newClientArg, client, interceptors, im, hdrHeap, prmHeap, crashed,
                   stage, ctx, cancelPhase, userCfg, finalCfg, req, reqLog,
                   copied, sent, attempts, doTimeout, reply, mrg>>

\* The caller has its answer (or recovered the panic); the goroutine's locals
\* and the maps only it referred to are gone.
RequestReturn(p) ==
    /\ ~crashed /\ pc[p] \in {"done", "panicked"}
    /\ pc' = [pc EXCEPT ![p] = "idle"]
    /\ ctx' = [ctx EXCEPT ![p] = "live"]
    /\ cancelPhase' = [cancelPhase EXCEPT ![p] = "none"]
    /\ userCfg' = [userCfg EXCEPT ![p] = NoConfig]
    /\ finalCfg' = [finalCfg EXCEPT ![p] = NoConfig]
    /\ req' = [req EXCEPT ![p] = NoRequest]
    /\ reqLog' = [reqLog EXCEPT ![p] = << >>]
    /\ respLog' = [respLog EXCEPT ![p] = << >>]
    /\ copied' = [copied EXCEPT ![p] = EmptyMap]
    /\ sent' = [sent EXCEPT ![p] = NoRequest]
    /\ attempts' = [attempts EXCEPT ![p] = 0]
    /\ doTimeout' = [doTimeout EXCEPT ![p] = 0]
    /\ reply' = [reply EXCEPT ![p] = NoReply]
    /\ stream' = [stream EXCEPT ![p] = "none"]
    /\ bodyRead' = [bodyRead EXCEPT ![p] = "none"]
    /\ result' = [result EXCEPT ![p] = NoResult]
    /\ hdrHeap' = [hdrHeap EXCEPT ![UserRef(p)] = EmptyMap, ![FreshRef(p)] = EmptyMap]
    /\ prmHeap' = [prmHeap EXCEPT ![UserRef(p)] = EmptyMap, ![FreshRef(p)] = EmptyMap]
    /\ UNCHANGED <<newClientArg, client, interceptors, im, crashed, stage, mrg>>

\* The call's context is canceled or its deadline expires.
CtxErrors == {"context canceled", "context deadline exceeded"}

Cancel(p, cause) ==
    /\ ~crashed /\ InFlight(p) /\ ctx[p] = "live"
    /\ ctx' = [ctx EXCEPT ![p] = cause]
    /\ cancelPhase' = [cancelPhase EXCEPT ![p] =
                         IF pc[p] = "reply" THEN "after reply" ELSE "before reply"]
    /\ UNCHANGED <<clientVars, pc, userCfg, finalCfg, req, reqLog, respLog,
                   copied, sent, attempts, doTimeout, reply, stream, bodyRead, result, mrg>>

\* The Go runtime detects the unsynchronised map access and ends the process
\* ("fatal error: concurrent map writes").
Fatal ==
    /\ ~crashed /\ Race
    /\ crashed' = TRUE
    /\ UNCHANGED <<newClientArg, client, interceptors, im, hdrHeap, prmHeap, stage,
                   callVars, mrg>>

\* ------------------------------------------------- InterceptorManager

\* A variant of the append that puts the new interceptor first.
Register_Prepend(registry, i) == <<i>> \o registry

\* im.interceptors = append(im.interceptors, interceptor).
Register(registry, i) == Append(registry, i)

\* AddInterceptor, called while no Request is running on the client.
AddInterceptor(i) ==
    /\ ~crashed /\ stage.op = "none"
    /\ \A p \in Calls : pc[p] = "idle"
    /\ Len(interceptors) < MaxInterceptors
    /\ interceptors' = Register(interceptors, i)
    /\ UNCHANGED <<newClientArg, client, im, hdrHeap, prmHeap, crashed, stage,
                   callVars, mrg>>

\* The interceptors the caller registers on a manager of its own
\* (TestInterceptorResponse), and AddInterceptor on that manager.
OtherInterceptors == {T3}
AddInterceptorOther(i) ==
    /\ ~crashed /\ stage.op = "none"
    /\ \A p \in Calls : pc[p] = "idle"
    /\ Len(im) < MaxInterceptors
    /\ im' = Register(im, i)
    /\ UNCHANGED <<newClientArg, client, interceptors, hdrHeap, prmHeap, crashed,
                   stage, callVars, mrg>>

\* The request the caller hands to ApplyRequestInterceptors itself.
CallerRequest == NewRequestWithContext("GET", "http://h/x", NilBody)

\* The caller calls ApplyRequestInterceptors on the client's manager.
CallerApplyRequest ==
    /\ ~crashed /\ stage.op = "none"
    /\ \A p \in Calls : pc[p] = "idle"
    /\ LET a == ApplyRequestInterceptors(interceptors, CallerRequest)
       IN stage' = [op |-> "request", kind |-> a.kind, req |-> a.req,
                    resp |-> NoResponse, in |-> NoResponse,
                    err |-> IF a.kind = "error"
                            THEN RequestInterceptorError(a.idx, a.cause)
                            ELSE NoError,
                    log |-> a.log]
    /\ UNCHANGED <<newClientArg, client, interceptors, im, hdrHeap, prmHeap, crashed,
                   callVars, mrg>>

\* The error ApplyResponseInterceptors returns for a failure at index idx.
ResponseInterceptorError(idx, cause) ==
    Wrapped(<<"response interceptor failed">>, idx, cause)

\* The caller calls ApplyResponseInterceptors on the Response of call p.
CallerApplyResponse(p) ==
    /\ ~crashed /\ stage.op = "none"
    /\ pc[p] = "done" /\ ~result[p].resp.isNil
    /\ \A q \in Calls \ {p} : pc[q] = "idle"
    /\ LET a == ApplyResponseInterceptors(interceptors, result[p].resp)
       IN stage' = [op |-> "response", kind |-> a.kind, req |-> NoRequest,
                    resp |-> a.resp, in |-> result[p].resp,
                    err |-> IF a.kind = "error"
                            THEN ResponseInterceptorError(a.idx, a.cause)
                            ELSE NoError,
                    log |-> a.log]
    /\ UNCHANGED <<newClientArg, client, interceptors, im, hdrHeap, prmHeap, crashed,
                   callVars, mrg>>

\* The caller is done with what the fold returned.
CallerStageReturn ==
    /\ ~crashed /\ stage.op # "none"
    /\ stage' = NoStage
    /\ UNCHANGED <<newClientArg, client, interceptors, im, hdrHeap, prmHeap, crashed,
                   callVars, mrg>>

\* One goroutine uses the client: it calls Request again and again, with any
\* config, context and transport behaviour, and registers interceptors and
\* calls the folds between the calls.
Sequential(p) == \A q \in Calls \ {p} : pc[q] = "idle"

Next ==
    \/ \E p \in Calls, config \in UserConfigs : Sequential(p) /\ RequestStart(p, config)
    \/ \E p \in Calls : RequestMergeHeaders(p)
    \/ \E p \in Calls : RequestMergeParams(p)
    \/ \E p \in Calls : RequestPrepare(p)
    \/ \E p \in Calls : RequestCopyHeaders(p)
    \/ \E p \in Calls : RequestDo(p)
    \/ \E p \in Calls : \E out \in DoOutcomes(ctx[p]) : RequestDoReturn(p, out)
    \/ \E p \in Calls : \E read \in ReadOutcomes(ctx[p], reply[p].Body) :
          RequestFinish(p, read)
    \/ \E p \in Calls : RequestReturn(p)
    \/ \E p \in Calls, cause \in CtxErrors : Cancel(p, cause)
    \/ \E i \in Interceptors : AddInterceptor(i)
    \/ \E i \in OtherInterceptors : AddInterceptorOther(i)
    \/ CallerApplyRequest
    \/ \E p \in Calls : CallerApplyResponse(p)
    \/ CallerStageReturn

Spec == Init /\ [][Next]_vars

\* NumCalls goroutines call Request on one client at the same time, against
\* a server that answers every request with 200 and a readable body
\* (TestClientConcurrentRequests, for every client config, for call configs
\* with no maps and with both maps of their own, and for registries of
\* interceptors whose request transform succeeds).
OkReply == [StatusCode |-> 200, Body |-> <<"x">>]
ConcurrentConfigs ==
    {c \in UserConfigs : ValidMethod(c.Method) /\ c.Headers.isNil = c.Params.isNil}
ConcurrentInterceptors == {i \in Interceptors : i.Request.op = "add"}

NextConcurrent ==
    \/ \E p \in Calls, config \in ConcurrentConfigs : RequestStart(p, config)
    \/ \E p \in Calls : RequestMergeHeaders(p)
    \/ \E p \in Calls : RequestMergeParams(p)
    \/ \E p \in Calls : RequestPrepare(p)
    \/ \E p \in Calls : RequestCopyHeaders(p)
    \/ \E p \in Calls : RequestDo(p)
    \/ \E p \in Calls : RequestDoReturn(p, DoReply(OkReply))
    \/ \E p \in Calls : RequestFinish(p, ReadOk(reply[p].Body))
    \/ \E p \in Calls : RequestReturn(p)
    \/ Fatal
    \/ \E i \in ConcurrentInterceptors : AddInterceptor(i)

SpecConcurrent == Init /\ [][NextConcurrent]_vars

\* ------------------------------------------- the managers, directly

\* The caller registers interceptors of any kind on the client's manager and
\* on a manager of its own, and calls the folds itself: the request fold on
\* the client's manager, the response fold on its own manager with a
\* Response it holds (TestInterceptorResponse).  No Request is running.
CallerResponse == Response("200 OK", 200, <<"x">>)

ManagerApplyResponse ==
    /\ ~crashed /\ stage.op = "none"
    /\ \A p \in Calls : pc[p] = "idle"
    /\ LET a == ApplyResponseInterceptors(im, CallerResponse)
       IN stage' = [op |-> "response", kind |-> a.kind, req |-> NoRequest,
                    resp |-> a.resp, in |-> CallerResponse,
                    err |-> IF a.kind = "error"
                            THEN ResponseInterceptorError(a.idx, a.cause)
                            ELSE NoError,
                    log |-> a.log]
    /\ UNCHANGED <<newClientArg, client, interceptors, im, hdrHeap, prmHeap,
                   crashed, callVars, mrg>>

NextManager ==
    \/ \E i \in Interceptors : AddInterceptor(i)
    \/ \E i \in Interceptors : AddInterceptorOther(i)
    \/ CallerApplyRequest
    \/ ManagerApplyResponse
    \/ CallerStageReturn

SpecManager == Init /\ [][NextManager]_vars

\* ------------------------------------------------ mergeConfig, directly

\* A caller holds two Configs, calls mergeConfig(base, override) and then
\* writes to the Headers of the Config it got back.  The base's maps are at
\* ClientRef, the override's at UserRef(1), a new map at FreshRef(1).
MergeHeaderMaps ==
    {NilMap, Map(EmptyMap), Map("A" :> <<"d">>), Map("a" :> <<"d">>),
     Map("A" :> <<"d", "e">>), Map(("a" :> <<"d">>) @@ ("A" :> <<"e">>)),
     Map(("A" :> <<"d">>) @@ ("B" :> << >>))}
MergeParamMaps ==
    {NilMap, Map("q" :> "0"), Map(("q" :> "1") @@ ("r" :> "2"))}
MergeScalars ==
    {[Method |-> "", URL |-> "", Body |-> NilBody, Timeout |-> 0],
     [Method |-> "GET", URL |-> "http://h", Body |-> Bytes(<< >>), Timeout |-> 10],
     [Method |-> "POST", URL |-> "http://g", Body |-> Bytes(<<"b">>), Timeout |-> 5],
     [Method |-> "", URL |-> "http://g", Body |-> NilBody, Timeout |-> 5]}
MergeConfigs ==
    {Config(s.Method, s.URL, h, m, s.Body, s.Timeout) :
        s \in MergeScalars, h \in MergeHeaderMaps, m \in MergeParamMaps}

MergeRefs == {ClientRef, UserRef(1), FreshRef(1)}

MergeStart(base, override) ==
    [pc |-> "start", base |-> base, override |-> override,
     hdr |-> [r \in MergeRefs |->
                CASE r = ClientRef -> base.Headers.m
                  [] r = UserRef(1) -> override.Headers.m
                  [] OTHER -> EmptyMap],
     prm |-> [r \in MergeRefs |->
                CASE r = ClientRef -> base.Params.m
                  [] r = UserRef(1) -> override.Params.m
                  [] OTHER -> EmptyMap],
     baseCfg |-> Config(base.Method, base.URL, RefOf(base.Headers, ClientRef),
                        RefOf(base.Params, ClientRef), base.Body, base.Timeout),
     overrideCfg |-> Config(override.Method, override.URL,
                            RefOf(override.Headers, UserRef(1)),
                            RefOf(override.Params, UserRef(1)),
                            override.Body, override.Timeout),
     res |-> NoConfig,
     first |-> [Headers |-> EmptyMap, Params |-> EmptyMap],
     again |-> NoConfig]

\* finalConfig := mergeConfig(base, override), the whole function.
MergeCall ==
    /\ mrg.pc = "start"
    /\ \E ho \in RangeOrders(Deref(mrg.hdr, mrg.overrideCfg.Headers)),
          po \in RangeOrders(Deref(mrg.prm, mrg.overrideCfg.Params)) :
        LET h == mergeHeaders(mrg.hdr, FreshRef(1), mrg.baseCfg.Headers,
                              mrg.overrideCfg.Headers, ho)
            q == mergeParams(mrg.prm, FreshRef(1), mrg.baseCfg.Params,
                             mrg.overrideCfg.Params, po)
        IN mrg' = [mrg EXCEPT !.pc = "merged", !.hdr = h.heap, !.prm = q.heap,
                              !.res = mergeConfig(mrg.baseCfg, mrg.overrideCfg,
                                                  h.ref, q.ref),
                              !.first = [Headers |-> h.heap[h.ref],
                                         Params |-> q.heap[q.ref]]]
    /\ UNCHANGED <<clientVars, callVars>>

\* again := mergeConfig(finalConfig, override): the result of the first call
\* is merged with the same override once more.  `first` keeps what the maps
\* of the first result held when the first call returned.
MergeAgain ==
    /\ mrg.pc = "merged"
    /\ \E ho \in RangeOrders(Deref(mrg.hdr, mrg.overrideCfg.Headers)),
          po \in RangeOrders(Deref(mrg.prm, mrg.overrideCfg.Params)) :
        LET h == mergeHeaders(mrg.hdr, FreshRef(1), mrg.res.Headers,
                              mrg.overrideCfg.Headers, ho)
            q == mergeParams(mrg.prm, FreshRef(1), mrg.res.Params,
                             mrg.overrideCfg.Params, po)
        IN mrg' = [mrg EXCEPT !.pc = "merged again", !.hdr = h.heap,
                              !.prm = q.heap,
                              !.again = mergeConfig(mrg.res, mrg.overrideCfg,
                                                    h.ref, q.ref)]
    /\ UNCHANGED <<clientVars, callVars>>

\* The caller writes to the merged config's headers: res.Headers.Set(key, "z").
MergeCallerSet(key) ==
    /\ mrg.pc = "merged"
    /\ mrg' = [mrg EXCEPT !.pc = "mutated",
                          !.hdr[mrg.res.Headers] = HeaderSet(@, key, "z")]
    /\ UNCHANGED <<clientVars, callVars>>

MergeKeys == {"A", "B"}

\* The client of the other specifications stays as constructed.
IdleClientConfig == Config("", "", NilMap, NilMap, NilBody, 10)

InitMerge ==
    /\ InitClient(IdleClientConfig)
    /\ InitCalls
    /\ \E base \in MergeConfigs, override \in MergeConfigs :
          mrg = MergeStart(base, override)

NextMerge ==
    \/ MergeCall
    \/ MergeAgain
    \/ \E key \in MergeKeys : MergeCallerSet(key)

SpecMerge == InitMerge /\ [][NextMerge]_vars

\* ================================================================ claims

\* The values a header map holds under a canonical key.
HeaderValues(h, key) == IF key \in DOMAIN h THEN h[key] ELSE << >>

\* C1: after any sequence of Request calls the client's default
\* configuration is what NewClient was given: the same scalar fields, and
\* header and param maps with the contents they had at construction.
C1_DefaultConfigAsConstructed ==
    /\ client = NewClient(newClientArg)
    /\ Deref(hdrHeap, client.config.Headers) = newClientArg.Headers.m
    /\ Deref(prmHeap, client.config.Params) = newClientArg.Params.m

\* C2: mergeConfig(base, override) leaves the base's header map and param
\* map as they were, and returns a header map that is not the base's own
\* map, so that a later write to the result's headers does not show in
\* base.Headers.
C2_MergeLeavesBaseAlone ==
    mrg.pc \in {"merged", "mutated"} =>
        /\ Deref(mrg.hdr, mrg.baseCfg.Headers) = mrg.base.Headers.m
        /\ Deref(mrg.prm, mrg.baseCfg.Params) = mrg.base.Params.m
        /\ mrg.res.Headers # mrg.baseCfg.Headers

\* C3: concurrent Request calls that each receive a 200 reply all succeed,
\* and no two of them access the same map with at least one write (hence the
\* runtime never ends the process for it), whatever maps the client's
\* default config and the calls' configs carry.
C3_ConcurrentCallsAreSafe ==
    /\ ~Race
    /\ ~crashed
    /\ \A p \in Calls :
          pc[p] = "done" /\ reply[p] = OkReply =>
              /\ result[p].err.isNil
              /\ ~result[p].resp.isNil
              /\ result[p].resp.StatusCode = 200

\* C4: an interceptor registered with only one of its two transforms is a
\* no-op for the other stage: neither Request nor a fold called by the
\* caller crashes on the absent half, and a fold over interceptors that all
\* lack the stage's transform returns what it was given.
C4_AbsentHalfIsNoOp ==
    /\ \A p \in Calls : pc[p] # "panicked"
    /\ stage.kind # "panic"
    /\ (stage.op = "request"
        /\ \A i \in DOMAIN interceptors : interceptors[i].Request.op = "nil")
       => (stage.kind = "ok" /\ stage.req = CallerRequest)
    /\ (stage.op = "response"
        /\ \A i \in DOMAIN interceptors : interceptors[i].Response.op = "nil")
       => (stage.kind = "ok" /\ stage.resp = stage.in)

\* The marker each registered request transform appends, in registration
\* order, and the test for a value being such a marker.
Markers(registry) == [i \in 1 .. Len(registry) |-> registry[i].Request.v]
IsMarker(v) == v \in {"t1", "t2"}
Indices(n) == [i \in 1 .. n |-> i - 1]

\* The call has left the request interceptor stage with a request.
PastInterceptors(p) ==
    \/ pc[p] \in {"copyHeaders", "do", "inflight", "reply"}
    \/ pc[p] = "done" /\ sent[p] # NoRequest

\* C5: for interceptors registered in the order T1..Tn, every Request call
\* invokes their request transforms in that order (indices 0..n-1, each on
\* the request the previous one returned, so the markers they append stand
\* in registration order), and the request handed to the transport is the
\* one the last transform returned; this for each call, whatever the other
\* concurrent calls do.
C5_TransformsRunInRegistrationOrder ==
    \A p \in Calls :
        /\ PastInterceptors(p) =>
              /\ reqLog[p] = Indices(Len(interceptors))
              /\ SelectSeq(HeaderValues(req[p].Header, "A"), IsMarker)
                    = Markers(interceptors)
        /\ sent[p] # NoRequest =>
              /\ SubSeq(HeaderValues(sent[p].Header, "A"), 1, Len(interceptors))
                    = Markers(interceptors)
              /\ sent[p].Method = req[p].Method /\ sent[p].URL = req[p].URL
              /\ sent[p].Body = req[p].Body

\* Two transforms with different markers are registered and a call's request
\* is with the transport while the other call is running too.
C5_Witness ==
    \E p, q \in Calls :
        /\ p # q /\ InFlight(q)
        /\ pc[p] = "inflight"
        /\ Len(interceptors) = 2
        /\ Markers(interceptors) = <<"t1", "t2">>
        /\ SubSeq(HeaderValues(sent[p].Header, "A"), 1, 2) = <<"t1", "t2">>

\* The one-based position of the first request transform that fails, 0 if
\* there is none, and whether every transform before it is present.
FirstFailing(registry) ==
    LET failing == {i \in DOMAIN registry : registry[i].Request.op = "fail"}
    IN IF failing = {} THEN 0
       ELSE CHOOSE i \in failing : \A j \in failing : i <= j
ReachesFirstFailing(registry) ==
    /\ FirstFailing(registry) > 0
    /\ \A j \in 1 .. (FirstFailing(registry) - 1) : registry[j].Request.op # "nil"

\* C6: when the request transform at zero-based index i is the first to
\* fail, the transforms invoked are exactly those at 0..i, the error of
\* ApplyRequestInterceptors names index i and wraps the cause, and Request
\* returns it wrapped as "applying request interceptors", with no Response
\* and without handing anything to the transport.
C6_FirstFailureShortCircuits ==
    LET i == FirstFailing(interceptors) IN
    ReachesFirstFailing(interceptors) =>
        /\ \A p \in Calls :
              (pc[p] \notin {"idle", "mergeHeaders", "mergeParams", "prepare"}
               /\ ValidMethod(finalCfg[p].Method)) =>
                  /\ pc[p] = "done"
                  /\ reqLog[p] = Indices(i)
                  /\ result[p].resp.isNil
                  /\ result[p].err.type = "wrapped"
                  /\ result[p].err.wraps = <<"applying request interceptors",
                                             "request interceptor failed">>
                  /\ result[p].err.idx = i - 1
                  /\ result[p].err.cause = interceptors[i].Request.v
                  /\ sent[p] = NoRequest
        /\ stage.op = "request" =>
              /\ stage.kind = "error"
              /\ stage.log = Indices(i)
              /\ stage.err.wraps = <<"request interceptor failed">>
              /\ stage.err.idx = i - 1
              /\ stage.err.cause = interceptors[i].Request.v

\* The failing transform is registered first and a working one after it; a
\* call has returned the error naming index 0.
C6_Witness ==
    \E p \in Calls :
        /\ pc[p] = "done"
        /\ Len(interceptors) = 2
        /\ interceptors[1].Request.op = "fail"
        /\ interceptors[2].Request.op = "add"
        /\ result[p].err.idx = 0
        /\ reqLog[p] = <<0>>

\* The values the merged map holds for the keys that canonicalise to `key`,
\* in the order the copy loop visits the map.
RECURSIVE ConfigValues(_, _, _)
ConfigValues(merged, key, order) ==
    IF order = << >> THEN << >>
    ELSE (IF Canon(Head(order)) = key THEN merged[Head(order)] ELSE << >>)
         \o ConfigValues(merged, key, Tail(order))
InterceptorValues(registry, key) ==
    IF key = "A" THEN Markers(registry) ELSE << >>
CanonKeys == {"A", "B"}

\* C7: Request copies the merged configuration's headers onto the request
\* after all request interceptors have run and by adding: until the copy the
\* request holds the interceptors' values only, and from the copy on every
\* key holds the interceptors' values followed by every merged-config value
\* for that key; that request is the one handed to the transport.
C7_ConfigHeadersAddedAfterInterceptors ==
    \A p \in Calls :
        /\ pc[p] = "copyHeaders" =>
              \A key \in CanonKeys :
                  HeaderValues(req[p].Header, key)
                     = InterceptorValues(interceptors, key)
        /\ (pc[p] \in {"do", "inflight", "reply"}
            \/ (pc[p] = "done" /\ sent[p] # NoRequest)) =>
              /\ DOMAIN req[p].Header \subseteq CanonKeys
              /\ \E order \in RangeOrders(copied[p]) :
                    \A key \in CanonKeys :
                        HeaderValues(req[p].Header, key)
                           = InterceptorValues(interceptors, key)
                             \o ConfigValues(copied[p], key, order)
        /\ sent[p] # NoRequest => sent[p].Header = req[p].Header

\* An interceptor has set "A" and the merged config holds a value for "A":
\* the request with the transport carries both, the interceptor's first.
C7_Witness ==
    \E p \in Calls :
        /\ pc[p] = "inflight"
        /\ interceptors # << >>
        /\ HeaderValues(copied[p], "A") # << >>
        /\ HeaderValues(sent[p].Header, "A")
              = Markers(interceptors) \o copied[p]["A"]

\* C8: Request never invokes a registered response transform: no call logs
\* an invocation, and the Response a call returns is the one built from the
\* transport's reply; response transforms run in the fold the caller calls.
C8_RequestRunsNoResponseTransform ==
    \A p \in Calls :
        /\ respLog[p] = << >>
        /\ (pc[p] = "done" /\ ~result[p].resp.isNil) =>
              result[p].resp = Response(StatusLine(reply[p].StatusCode),
                                        reply[p].StatusCode, reply[p].Body)

\* A response transform is registered, Request has returned the reply's
\* body untouched, and the caller's own fold over that Response has run the
\* transform and changed the body.
C8_Witness ==
    \E p \in Calls :
        /\ pc[p] = "done"
        /\ \E i \in DOMAIN interceptors : interceptors[i].Response.op = "add"
        /\ result[p].resp.Body = <<"x">>
        /\ stage.op = "response" /\ stage.kind = "ok"
        /\ stage.log # << >>
        /\ stage.resp.Body # result[p].resp.Body

\* C9: for a reply with status s, Request returns a RequestError carrying s
\* and no Response if s >= 400, and a Response carrying s and no error if
\* s < 400 and the body is readable; it returns a RequestError only for a
\* reply with status >= 400.
C9_StatusClassification ==
    \A p \in Calls :
        pc[p] = "done" =>
            LET s == reply[p].StatusCode
                arrived == reply[p] # NoReply
            IN /\ (arrived /\ s >= 400) =>
                      /\ result[p].err.type = "RequestError"
                      /\ result[p].err.StatusCode = s
                      /\ result[p].resp.isNil
               /\ (arrived /\ s < 400 /\ bodyRead[p] = "ok") =>
                      /\ ~result[p].resp.isNil
                      /\ result[p].resp.StatusCode = s
                      /\ result[p].err.isNil
               /\ result[p].err.type = "RequestError" <=> (arrived /\ s >= 400)

\* A reply with status 400, the least error status, has been answered with a
\* RequestError.
C9_Witness ==
    \E p \in Calls :
        /\ pc[p] = "done"
        /\ reply[p].StatusCode = 400
        /\ result[p].err.type = "RequestError"
        /\ result[p].err.StatusCode = 400

\* C10 as stated: a Request whose context ends at any point while the call
\* is in flight, also after the reply's status line has arrived and before
\* the body is read, returns a transport-level failure and never a
\* RequestError.
C10_CancelNeverRequestError ==
    \A p \in Calls :
        (pc[p] = "done" /\ cancelPhase[p] # "none") =>
            /\ result[p].err.type = "wrapped"
            /\ result[p].resp.isNil

\* C10 amended: a Request whose context ends before the reply's status line
\* has arrived, and which reaches the transport, returns the "executing
\* request" failure wrapping the context's error and no Response, never a
\* RequestError.  When the context ends after the status line has arrived,
\* the status decides: for a status >= 400 the call returns a RequestError
\* with that status (body best-effort), for a status < 400 it returns the
\* body read failure or, if the body could still be read, the Response.
C10_CancelBeforeReplyIsTransportFailure ==
    \A p \in Calls :
        pc[p] = "done" =>
            /\ (cancelPhase[p] = "before reply" /\ sent[p] # NoRequest) =>
                  /\ result[p].err = ExecError(ctx[p])
                  /\ result[p].resp.isNil
                  /\ reply[p] = NoReply
            /\ (cancelPhase[p] = "after reply" /\ reply[p].StatusCode >= 400) =>
                  /\ result[p].err.type = "RequestError"
                  /\ result[p].err.StatusCode = reply[p].StatusCode
            /\ (cancelPhase[p] = "after reply" /\ reply[p].StatusCode < 400) =>
                  \/ /\ bodyRead[p] = "failed"
                     /\ result[p].err
                           = Wrapped(<<"reading response body">>, -1, ctx[p])
                  \/ /\ bodyRead[p] = "ok"
                     /\ result[p].err.isNil /\ ~result[p].resp.isNil
            /\ (cancelPhase[p] # "none" /\ result[p].err.type = "RequestError") =>
                  cancelPhase[p] = "after reply"

\* The context was canceled while the request was with the transport and the
\* call has returned the wrapped context error.
C10_Witness ==
    \E p \in Calls :
        /\ pc[p] = "done"
        /\ cancelPhase[p] = "before reply"
        /\ sent[p] # NoRequest
        /\ ctx[p] = "context canceled"
        /\ result[p].err = ExecError("context canceled")

\* The request interceptor stage of call p ran every registered transform
\* and none failed.
InterceptorStageOk(p) ==
    /\ reqLog[p] = Indices(Len(interceptors))
    /\ \A i \in DOMAIN interceptors : interceptors[i].Request.op = "add"

\* C11: a Request call that has returned has returned exactly one of a
\* Response and an error; it has returned a Response only if request
\* construction and the request interceptor stage succeeded, the request
\* went to the transport, a reply with status < 400 arrived and its body
\* was read.
C11_ResponseXorError ==
    \A p \in Calls :
        pc[p] = "done" =>
            /\ result[p].returned
            /\ result[p].resp.isNil # result[p].err.isNil
            /\ ~result[p].resp.isNil =>
                  /\ ValidMethod(finalCfg[p].Method)
                  /\ InterceptorStageOk(p)
                  /\ sent[p] # NoRequest
                  /\ reply[p] # NoReply
                  /\ reply[p].StatusCode < 400
                  /\ bodyRead[p] = "ok"
                  /\ stream[p] = "closed"

\* A call has returned a Response and no error, for a reply with the
\* greatest non-error status, after the registered transforms ran.
C11_Witness ==
    \E p \in Calls :
        /\ pc[p] = "done"
        /\ ~result[p].resp.isNil /\ result[p].err.isNil
        /\ interceptors # << >>
        /\ reply[p].StatusCode = 399

\* C12: a Request call hands a request to the transport at most once:
\* exactly once when request construction and the request interceptor stage
\* succeeded, not at all when one of them failed; a call that ended with a
\* transport failure or with a reply of status >= 400 has called the
\* transport once.
C12_TransportCalledAtMostOnce ==
    \A p \in Calls :
        /\ attempts[p] <= 1
        /\ attempts[p] = 1 <=> sent[p] # NoRequest
        /\ pc[p] \in {"done", "panicked"} =>
              (attempts[p] = 1
                 <=> (ValidMethod(finalCfg[p].Method) /\ InterceptorStageOk(p)))
        /\ (pc[p] = "done"
            /\ (result[p].err.type = "RequestError"
                \/ (result[p].err.type = "wrapped"
                    /\ result[p].err.wraps = <<"executing request">>)))
           => attempts[p] = 1

\* A call whose transport call failed has returned that failure after one
\* transport call.
C12_Witness ==
    \E p \in Calls :
        /\ pc[p] = "done"
        /\ attempts[p] = 1
        /\ result[p].err = ExecError("connection refused")

\* The header and param maps of a direct mergeConfig call: the literals the
\* caller passed and the maps of the returned Config.
BaseHeaders == mrg.base.Headers.m
OverrideHeaders == mrg.override.Headers.m
MergedHeaders == Deref(mrg.hdr, mrg.res.Headers)
BaseParams == mrg.base.Params.m
OverrideParams == mrg.override.Params.m
MergedParams == Deref(mrg.prm, mrg.res.Params)

\* The keys of a header map that are equal to `key` ignoring case.
SameKeys(h, key) == {j \in DOMAIN h : Canon(j) = Canon(key)}
LastOnly(values) ==
    IF values = << >> THEN << >> ELSE <<values[Len(values)]>>

\* C13: for every header key k of the override (written in canonical form
\* and the override's only key of that name), the headers of
\* mergeConfig(base, override) hold under k the override's whole value
\* list; a key the override does not name keeps the base's value list.
C13_OverrideValueListReplacesWhole ==
    mrg.pc = "merged" =>
        /\ \A k \in DOMAIN OverrideHeaders :
              (k = Canon(k) /\ SameKeys(OverrideHeaders, k) = {k}) =>
                  HeaderValues(MergedHeaders, k) = OverrideHeaders[k]
        /\ \A k \in DOMAIN BaseHeaders :
              SameKeys(OverrideHeaders, k) = {} =>
                  HeaderValues(MergedHeaders, k) = BaseHeaders[k]

\* C14: an override header replaces the base header stored under any key
\* equal to it ignoring case: for every override key that carries a value
\* the merged headers hold one entry under that case-insensitive key, and
\* its value comes from the override.
C14_OverrideReplacesIgnoringCase ==
    mrg.pc = "merged" =>
        \A k \in DOMAIN OverrideHeaders :
            OverrideHeaders[k] # << >> =>
                /\ Cardinality(SameKeys(MergedHeaders, k)) = 1
                /\ \A j \in SameKeys(MergedHeaders, k) :
                      \E o \in SameKeys(OverrideHeaders, k) :
                          MergedHeaders[j] \in {OverrideHeaders[o],
                                                LastOnly(OverrideHeaders[o])}

\* C15: mergeConfig is idempotent in its override: merging the result of
\* mergeConfig(A, B) with B once more gives a Config equal to that result
\* field by field, the maps compared by what they hold.
C15_MergeIdempotent ==
    mrg.pc = "merged again" =>
        /\ mrg.again.Method = mrg.res.Method
        /\ mrg.again.URL = mrg.res.URL
        /\ mrg.again.Body = mrg.res.Body
        /\ mrg.again.Timeout = mrg.res.Timeout
        /\ Deref(mrg.hdr, mrg.again.Headers) = mrg.first.Headers
        /\ Deref(mrg.prm, mrg.again.Params) = mrg.first.Params

\* A direct mergeConfig call has returned.
Merged == mrg.pc \in {"merged", "mutated", "merged again"}

\* C16: mergeConfig(A, B).Method is B.Method if B.Method is not empty and
\* A.Method otherwise; the same for URL; Timeout is B.Timeout if that is
\* not 0 and A.Timeout otherwise.
C16_ScalarOverridePrecedence ==
    Merged =>
        /\ mrg.res.Method = (IF mrg.override.Method # "" THEN mrg.override.Method
                             ELSE mrg.base.Method)
        /\ mrg.res.URL = (IF mrg.override.URL # "" THEN mrg.override.URL
                          ELSE mrg.base.URL)
        /\ mrg.res.Timeout = (IF mrg.override.Timeout # 0
                              THEN mrg.override.Timeout ELSE mrg.base.Timeout)

\* The override has no Method but a URL and a Timeout of its own: the result
\* takes the Method from the base and the URL and Timeout from the override.
C16_Witness ==
    /\ Merged
    /\ mrg.override.Method = "" /\ mrg.base.Method = "GET"
    /\ mrg.override.URL = "http://g" /\ mrg.base.URL = "http://h"
    /\ mrg.override.Timeout = 5 /\ mrg.base.Timeout = 10
    /\ mrg.res.Method = "GET" /\ mrg.res.URL = "http://g"
    /\ mrg.res.Timeout = 5

\* C17: mergeConfig(A, B).Body is B.Body whenever B.Body is not nil, also
\* when it is empty, and A.Body when B.Body is nil; never the two bodies
\* joined.
C17_BodyOverrideIffPresent ==
    Merged =>
        /\ mrg.res.Body = (IF mrg.override.Body.present THEN mrg.override.Body
                           ELSE mrg.base.Body)
        /\ (mrg.base.Body.bytes # << >> /\ mrg.override.Body.bytes # << >>) =>
              mrg.res.Body.bytes # mrg.base.Body.bytes \o mrg.override.Body.bytes

\* The override's Body is present and empty, the base's is not empty: the
\* result's Body is the empty one.
C17_Witness ==
    /\ Merged
    /\ mrg.override.Body = Bytes(<< >>)
    /\ mrg.base.Body = Bytes(<<"b">>)
    /\ mrg.res.Body = Bytes(<< >>)

\* C18: the Params of mergeConfig(A, B) have the keys of A.Params and of
\* B.Params and no others; a key of B maps to B's value, a key of A alone to
\* A's value; also when A.Params or B.Params is nil.
C18_ParamsLastWriterWins ==
    mrg.pc = "merged" =>
        /\ mrg.res.Params # NilRef
        /\ DOMAIN MergedParams = DOMAIN BaseParams \cup DOMAIN OverrideParams
        /\ \A k \in DOMAIN MergedParams :
              MergedParams[k] = (IF k \in DOMAIN OverrideParams
                                 THEN OverrideParams[k] ELSE BaseParams[k])

\* Base and override share a key with different values and the override has
\* a key of its own.
C18_Witness ==
    /\ mrg.pc = "merged"
    /\ BaseParams = ("q" :> "0")
    /\ OverrideParams = (("q" :> "1") @@ ("r" :> "2"))
    /\ MergedParams = (("q" :> "1") @@ ("r" :> "2"))

\* The marker each registered response transform appends, the one-based
\* position of the first response transform that fails (0: none), and
\* whether the fold gets that far without meeting an absent transform.
ResponseMarkers(registry) ==
    [i \in 1 .. Len(registry) |-> registry[i].Response.v]
FirstFailingResponse(registry) ==
    LET failing == {i \in DOMAIN registry : registry[i].Response.op = "fail"}
    IN IF failing = {} THEN 0
       ELSE CHOOSE i \in failing : \A j \in failing : i <= j
LastResponseInvoked(registry) ==
    IF FirstFailingResponse(registry) = 0 THEN Len(registry)
    ELSE FirstFailingResponse(registry)

\* C19: ApplyResponseInterceptors folds the response transforms over the
\* response in registration order (the markers they append stand in that
\* order after what the response held); the first transform to fail, at
\* zero-based index i, ends the fold: the transforms invoked are those at
\* 0..i, and the error names i and wraps the cause.
C19_ResponseFoldInOrderShortCircuits ==
    LET n == FirstFailingResponse(im) IN
    (/\ stage.op = "response"
     /\ \A j \in 1 .. LastResponseInvoked(im) : im[j].Response.op # "nil") =>
        IF n = 0
        THEN /\ stage.kind = "ok"
             /\ stage.log = Indices(Len(im))
             /\ stage.resp = [stage.in EXCEPT
                                !.Body = stage.in.Body \o ResponseMarkers(im)]
             /\ stage.err.isNil
        ELSE /\ stage.kind = "error"
             /\ stage.log = Indices(n)
             /\ stage.resp.isNil
             /\ stage.err = Wrapped(<<"response interceptor failed">>, n - 1,
                                    im[n].Response.v)

\* Two response transforms with different markers are registered and the
\* fold has run both, the first registered first.
C19_Witness ==
    /\ stage.op = "response" /\ stage.kind = "ok"
    /\ Len(im) = 2
    /\ stage.resp.Body = <<"x", "r3", "r1">>

\* C20: a manager's registry changes only by AddInterceptor appending the
\* interceptor it was given: every step leaves each registry as it was or
\* appends one element to it; a step of Request or of one of the folds
\* changes no registry; and a step that appends to one manager's registry
\* leaves the other manager's registry as it was.
C20_RegistryIsWhatWasRegistered ==
    [][/\ \/ interceptors' = interceptors
          \/ /\ \E i \in Interceptors : interceptors' = Append(interceptors, i)
             /\ im' = im
       /\ \/ im' = im
          \/ /\ \E i \in Interceptors : im' = Append(im, i)
             /\ interceptors' = interceptors
       /\ (pc' # pc \/ stage' # stage) =>
             (interceptors' = interceptors /\ im' = im)]_vars

\* Two different interceptors are registered on the client's manager, in the
\* order given, another on the caller's manager, and a Request has returned.
C20_Witness ==
    /\ Len(interceptors) = 2
    /\ interceptors[1] = T1 /\ interceptors[2] = T2
    /\ im = <<T3>>
    /\ \E p \in Calls : pc[p] = "done" /\ reqLog[p] = <<0, 1>>

\* C21: when Request has returned, the response stream the transport gave
\* that call is closed, on the success path whether or not the body could
\* be read and on the status >= 400 path that returns a RequestError.
C21_StreamClosedOnReturn ==
    \A p \in Calls :
        pc[p] = "done" => stream[p] # "open"

\* The config of call p without its Params and Timeout, merged with the
\* client's default config: what mergeConfig yields for the scalar fields
\* when the call's Params and Timeout are left out.
ErasedConfig(p) ==
    mergeConfig(client.config,
                [userCfg[p] EXCEPT !.Params = NilRef, !.Timeout = 0],
                finalCfg[p].Headers, NilRef)

====
